---------------------------- MODULE Spec2Model ----------------------------
(***************************************************************************)
(* A model of manual_finder.py: the scorer (domain_score, file_score), the *)
(* accessibility checker (is_accessible_url), the downloader               *)
(* (download_file, is_valid_pdf, offer_open_in_browser) and the            *)
(* interactive controller (find_manual).                                   *)
(*                                                                         *)
(* Python strings are sequences of one-character strings.  Messages that   *)
(* the program builds are sequences of tokens whose first token names the  *)
(* leading glyph (WARN, CROSS, LOCK).  An optional value is a sequence of  *)
(* length 0 (None) or 1.  A float score is an exact fraction [num, den].   *)
(* The platform is not Windows, so OUTPUT_DIR is /mnt/data.                *)
(***************************************************************************)
EXTENDS Integers, Sequences, FiniteSets, TLC

\* ------------------------------------------------------------------ bounds

\* search results modelled per round (the program asks for max_results)
MaxResults == 2

\* searches modelled per run of find_manual
MaxRounds == 2

\* ----------------------------------------------------------------- strings

None == <<>>

Some(x) == <<x>>

\* printable ASCII, code points 32..126, in order (GRAVE stands for code point 96,
\* which a TLA+ string cannot hold)
Ascii ==
  << " ", "!", "\"", "#", "$", "%", "&", "'", "(", ")", "*", "+", ",", "-", ".", "/",
     "0", "1", "2", "3", "4", "5", "6", "7", "8", "9", ":", ";", "<", "=", ">", "?",
     "@", "A", "B", "C", "D", "E", "F", "G", "H", "I", "J", "K", "L", "M", "N", "O",
     "P", "Q", "R", "S", "T", "U", "V", "W", "X", "Y", "Z", "[", "\\", "]", "^", "_",
     "GRAVE", "a", "b", "c", "d", "e", "f", "g", "h", "i", "j", "k", "l", "m", "n", "o",
     "p", "q", "r", "s", "t", "u", "v", "w", "x", "y", "z", "{", "|", "}", "~" >>

Ord(c) == 31 + (CHOOSE i \in 1..Len(Ascii) : Ascii[i] = c)

Chr(n) == Ascii[n - 31]

\* str.lower() on one character
LowerChar(c) == IF Ord(c) >= 65 /\ Ord(c) <= 90 THEN Chr(Ord(c) + 32) ELSE c

\* str.lower()
Lower(s) == [i \in 1..Len(s) |-> LowerChar(s[i])]

Whitespace == {" "}

\* str.strip()
Strip(s) ==
  LET keep == {i \in 1..Len(s) : s[i] \notin Whitespace}
      Min(S) == CHOOSE x \in S : \A y \in S : x <= y
      Max(S) == CHOOSE x \in S : \A y \in S : x >= y
  IN  IF keep = {} THEN <<>> ELSE SubSeq(s, Min(keep), Max(keep))

\* s[from:] in Python, with a 1-based from
Drop(s, from) == SubSeq(s, from, Len(s))

\* sub in s
Contains(s, sub) ==
  \E i \in 1..(Len(s) - Len(sub) + 1) : SubSeq(s, i, i + Len(sub) - 1) = sub

\* s.endswith(suf)
EndsWith(s, suf) ==
  Len(suf) <= Len(s) /\ SubSeq(s, Len(s) - Len(suf) + 1, Len(s)) = suf

\* s.startswith(pre)
StartsWith(s, pre) == Len(pre) <= Len(s) /\ SubSeq(s, 1, Len(pre)) = pre

\* the first index >= from whose character is in chars, Len(s) + 1 when none
FindAny(s, chars, from) ==
  LET hit == {i \in from..Len(s) : s[i] \in chars}
  IN  IF hit = {} THEN Len(s) + 1 ELSE CHOOSE i \in hit : \A j \in hit : i <= j

\* the last index whose character is c, 0 when none (str.rfind, 1-based)
RFind(s, c) ==
  LET hit == {i \in 1..Len(s) : s[i] = c}
  IN  IF hit = {} THEN 0 ELSE CHOOSE i \in hit : \A j \in hit : i >= j

\* a < b for Python strings (code point order)
RECURSIVE StrLess(_, _)
StrLess(a, b) ==
  IF a = <<>> THEN b # <<>>
  ELSE IF b = <<>> THEN FALSE
  ELSE IF a[1] # b[1] THEN Ord(a[1]) < Ord(b[1])
  ELSE StrLess(Tail(a), Tail(b))

\* s.replace(c, r) for a one-character c
RECURSIVE Replace(_, _, _)
Replace(s, c, r) ==
  IF s = <<>> THEN <<>>
  ELSE (IF s[1] = c THEN r ELSE <<s[1]>>) \o Replace(Tail(s), c, r)

\* ------------------------------------------------------- urllib, os.path

SchemeChars ==
  {Chr(n) : n \in (48..57) \cup (65..90) \cup (97..122)} \cup {"+", "-", "."}

IsAlpha(c) == (Ord(c) >= 65 /\ Ord(c) <= 90) \/ (Ord(c) >= 97 /\ Ord(c) <= 122)

\* urlsplit: whether the text before the first ":" is a scheme
HasScheme(url) ==
  LET i == FindAny(url, {":"}, 1)
  IN  /\ i > 1
      /\ i <= Len(url)
      /\ IsAlpha(url[1])
      /\ \A k \in 1..(i - 1) : url[k] \in SchemeChars

Scheme(url) ==
  IF HasScheme(url) THEN Lower(SubSeq(url, 1, FindAny(url, {":"}, 1) - 1)) ELSE <<>>

AfterScheme(url) ==
  IF HasScheme(url) THEN Drop(url, FindAny(url, {":"}, 1) + 1) ELSE url

\* urlparse(url).netloc
Netloc(url) ==
  LET rest == AfterScheme(url)
  IN  IF StartsWith(rest, <<"/", "/">>)
      THEN SubSeq(rest, 3, FindAny(rest, {"/", "?", "#"}, 3) - 1)
      ELSE <<>>

\* the schemes of urllib.parse.uses_params that the modelled URLs can carry
UsesParams == {<<>>, <<"h", "t", "t", "p">>, <<"h", "t", "t", "p", "s">>, <<"f", "t", "p">>}

\* urlparse(url).path
UrlPath(url) ==
  LET rest   == AfterScheme(url)
      noloc  == IF StartsWith(rest, <<"/", "/">>)
                THEN Drop(rest, FindAny(rest, {"/", "?", "#"}, 3))
                ELSE rest
      nofrag == SubSeq(noloc, 1, FindAny(noloc, {"#"}, 1) - 1)
      noqry  == SubSeq(nofrag, 1, FindAny(nofrag, {"?"}, 1) - 1)
      semi   == FindAny(noqry, {";"}, IF RFind(noqry, "/") = 0 THEN 1 ELSE RFind(noqry, "/"))
  IN  IF Scheme(url) \in UsesParams THEN SubSeq(noqry, 1, semi - 1) ELSE noqry

\* os.path.basename
Basename(p) == Drop(p, RFind(p, "/") + 1)

\* os.path.dirname of an absolute path
Dirname(p) == IF RFind(p, "/") <= 1 THEN SubSeq(p, 1, RFind(p, "/")) ELSE SubSeq(p, 1, RFind(p, "/") - 1)

HexDigits == <<"0", "1", "2", "3", "4", "5", "6", "7", "8", "9", "a", "b", "c", "d", "e", "f">>

IsHex(c) == \E i \in 1..16 : HexDigits[i] = LowerChar(c)

HexVal(c) == (CHOOSE i \in 1..16 : HexDigits[i] = LowerChar(c)) - 1

\* urllib.parse.unquote, for escapes of printable ASCII
RECURSIVE Unquote(_)
Unquote(s) ==
  IF s = <<>> THEN <<>>
  ELSE IF /\ s[1] = "%"
          /\ Len(s) >= 3
          /\ IsHex(s[2])
          /\ IsHex(s[3])
          /\ 16 * HexVal(s[2]) + HexVal(s[3]) \in 32..126
       THEN <<Chr(16 * HexVal(s[2]) + HexVal(s[3]))>> \o Unquote(Drop(s, 4))
       ELSE <<s[1]>> \o Unquote(Tail(s))

\* pathlib: dir / name (an absolute name replaces dir)
PathJoin(dir, name) ==
  IF StartsWith(name, <<"/">>) THEN name ELSE dir \o <<"/">> \o name

\* ------------------------------------------------------------- constants

TRUSTED_DOMAINS ==
  << <<".", "t", "r", "a", "n", "e", ".", "c", "o", "m">>,
     <<".", "c", "a", "r", "r", "i", "e", "r", ".", "c", "o", "m">>,
     <<".", "d", "a", "i", "k", "i", "n", ".", "c", "o", "m">>,
     <<".", "y", "o", "r", "k", ".", "c", "o", "m">>,
     <<".", "l", "g", ".", "c", "o", "m">> >>

OUTPUT_DIR == <<"/", "m", "n", "t", "/", "d", "a", "t", "a">>

PDF_MAGIC == <<"%", "P", "D", "F">>

WARN == "WARN"

CROSS == "CROSS"

LOCK == "LOCK"

\* -------------------------------------------------------------- the scorer

domain_score(url, mk) ==
  LET domain == Netloc(url)
      trust  == IF \E k \in 1..Len(TRUSTED_DOMAINS) : Contains(domain, TRUSTED_DOMAINS[k])
                THEN 3 ELSE 0
      named  == IF Contains(Lower(domain), Lower(mk)) THEN 2 ELSE 0
  IN  trust + named

\* difflib find_longest_match on a[alo..ahi], b[blo..bhi] (1-based, inclusive):
\* <<i, j, k>>, the longest common block, the earliest in a, then the earliest in b
LongestMatch(a, b, alo, ahi, blo, bhi) ==
  LET blocks == {t \in (alo..ahi) \X (blo..bhi) \X (1..(ahi - alo + 1)) :
                   /\ t[1] + t[3] - 1 <= ahi
                   /\ t[2] + t[3] - 1 <= bhi
                   /\ SubSeq(a, t[1], t[1] + t[3] - 1) = SubSeq(b, t[2], t[2] + t[3] - 1)}
      Better(s, t) == \/ s[3] > t[3]
                      \/ (s[3] = t[3] /\ s[1] < t[1])
                      \/ (s[3] = t[3] /\ s[1] = t[1] /\ s[2] <= t[2])
  IN  IF blocks = {} THEN <<alo, blo, 0>>
      ELSE CHOOSE s \in blocks : \A t \in blocks : Better(s, t)

\* difflib get_matching_blocks: the total size of the matching blocks
RECURSIVE MatchCount(_, _, _, _, _, _)
MatchCount(a, b, alo, ahi, blo, bhi) ==
  IF alo > ahi \/ blo > bhi THEN 0
  ELSE LET m == LongestMatch(a, b, alo, ahi, blo, bhi)
       IN  IF m[3] = 0 THEN 0
           ELSE m[3] + MatchCount(a, b, alo, m[1] - 1, blo, m[2] - 1)
                     + MatchCount(a, b, m[1] + m[3], ahi, m[2] + m[3], bhi)

\* difflib SequenceMatcher(None, a, b).ratio(), as an exact fraction
Ratio(a, b) ==
  IF Len(a) + Len(b) = 0 THEN [num |-> 1, den |-> 1]
  ELSE [num |-> 2 * MatchCount(a, b, 1, Len(a), 1, Len(b)), den |-> Len(a) + Len(b)]

file_score(title, mk, md) ==
  LET combined == Lower(mk \o <<" ">> \o md)
  IN  Ratio(combined, Lower(title))

\* x < y for fractions with positive denominators
FracLess(x, y) == x.num * y.den < y.num * x.den

FracEq(x, y) == x.num * y.den = y.num * x.den

\* a variant: best_score >= 0.5
close_match_ge(best_score) == 2 * best_score.num >= best_score.den

\* best_score > 0.5
close_match(best_score) == 2 * best_score.num > best_score.den

\* ------------------------------------------------ the accessibility checker

\* The outcomes of requests.head: a final status code, or an exception
HeadStatuses == {200, 403, 404, 500}

HeadErrors == {"ConnectTimeout"}

HeadResponses ==
  [kind : {"status"}, code : HeadStatuses, err : {""}] \cup
  [kind : {"exception"}, code : {0}, err : HeadErrors]

\* what a call of is_accessible_url does: it returns (accessible, reason), or an
\* exception leaves it (raised)
Returned(accessible, reason) ==
  [raised |-> FALSE, accessible |-> accessible, reason |-> reason]

\* a variant without the except clause, and with every status below 400 accessible
is_accessible_url_uncaught(resp) ==
  IF resp.kind = "exception"
  THEN [raised |-> TRUE, accessible |-> FALSE, reason |-> None]
  ELSE IF resp.code < 400 THEN Returned(TRUE, None)
  ELSE Returned(FALSE, Some(<<WARN, " HTTP ", ToString(resp.code), " returned">>))

\* a variant that takes every status but 404 for success
is_accessible_url_not404(resp) ==
  IF resp.kind = "exception"
  THEN Returned(FALSE, Some(<<WARN, " Error checking link: ", resp.err>>))
  ELSE IF resp.code = 404
       THEN Returned(FALSE, Some(<<CROSS, " File not found (", "404", ")">>))
  ELSE Returned(TRUE, None)

\* is_accessible_url, given what requests.head did
is_accessible_url(resp) ==
  IF resp.kind = "exception"
  THEN Returned(FALSE, Some(<<WARN, " Error checking link: ", resp.err>>))
  ELSE IF resp.code = 200 THEN Returned(TRUE, None)
  ELSE IF resp.code = 403
       THEN Returned(FALSE, Some(<<LOCK, " Access forbidden (login required)">>))
  ELSE IF resp.code = 404
       THEN Returned(FALSE, Some(<<CROSS, " File not found (", "404", ")">>))
  ELSE Returned(FALSE, Some(<<WARN, " HTTP ", ToString(resp.code), " returned">>))

\* ---------------------------------------------------------- the downloader

\* a variant that compares three bytes
is_valid_pdf_3bytes(files, path) ==
  IF path \notin DOMAIN files \/ files[path] = None THEN FALSE
  ELSE LET data == files[path][1]
       IN  SubSeq(data, 1, IF Len(data) < 3 THEN Len(data) ELSE 3) = SubSeq(PDF_MAGIC, 1, 3)

\* a variant that only asks whether the file can be opened
is_valid_pdf_exists(files, path) == path \in DOMAIN files /\ files[path] # None

\* is_valid_pdf on a disk that maps a path to None (no such file) or its bytes:
\* open raises for a missing file, and the except clause answers False
is_valid_pdf(files, path) ==
  IF path \notin DOMAIN files \/ files[path] = None THEN FALSE
  ELSE LET data == files[path][1]
       IN  SubSeq(data, 1, IF Len(data) < 4 THEN Len(data) ELSE 4) = PDF_MAGIC

\* download_file: the name under which the body is saved
SafeFilename(url) ==
  LET base     == Basename(UrlPath(url))
      filename == Unquote(IF base = <<>> THEN <<"m", "a", "n", "u", "a", "l", ".", "p", "d", "f">> ELSE base)
  IN  Replace(Replace(Replace(filename, " ", <<"_">>), "(", <<>>), ")", <<>>)

\* ------------------------------------------------------------ the inputs

\* URLs that a search can return
U_TRUSTED == <<"h", "t", "t", "p", ":", "/", "/", "a", ".", "l", "g", ".", "c", "o", "m", "/", "m", ".", "p", "d", "f">>

U_SPOOF == <<"h", "t", "t", "p", ":", "/", "/", "a", ".", "l", "g", ".", "c", "o", "m", ".", "x", ".", "i", "o", "/", "a", "%", "2", "F", "m", ".", "p", "d", "f">>

U_PLAIN == <<"h", "t", "t", "p", ":", "/", "/", "p", ".", "i", "o", "/", "a", "%", "2", "0", "(", "1", ")", ".", "p", "d", "f">>

Urls == {U_TRUSTED, U_SPOOF, U_PLAIN}

\* One search result: the dictionary keys that find_manual reads (an absent key
\* and an empty value are both the empty string: the code reads them with "or")
SearchResults ==
  { [href |-> U_TRUSTED, url |-> <<>>, title |-> <<"L", "G", " ", "A", "1", " ", "m", "a", "n", "u", "a", "l">>],
    [href |-> <<>>, url |-> U_PLAIN, title |-> <<"L", "G", " ", "A">>],
    [href |-> U_SPOOF, url |-> U_PLAIN, title |-> <<>>],
    [href |-> <<>>, url |-> <<>>, title |-> <<"z", "z">>] }

RECURSIVE SeqsUpTo(_, _)
SeqsUpTo(S, n) ==
  IF n = 0 THEN {<<>>}
  ELSE LET shorter == SeqsUpTo(S, n - 1)
       IN  shorter \cup {Append(s, x) : s \in {t \in shorter : Len(t) = n - 1}, x \in S}

\* what ddgs.text can return
ResultLists == SeqsUpTo(SearchResults, MaxResults)

\* what the user can type at the make and model prompts
MakeInputs == {<<"L", "G">>, <<" ", "x", " ">>, <<>>}

ModelInputs == {<<"a", "1">>}

\* the arguments find_manual can be called with
MakeArgs == {None, Some(<<"L", "G">>)}

ModelArgs == {None, Some(<<"a", "1">>)}

\* what the user can type at a y/n prompt
Answers == {<<"Y">>, <<" ", "y">>, <<"n">>}

\* the bodies a server can send
Bodies == {<<"%", "P", "D", "F", "-", "1">>, <<"<", "h", "t", "m", "l">>, <<"%", "P", "D">>}

\* iter_content(1024)
CHUNK_SIZE == 1024

NumChunks(body) == (Len(body) + CHUNK_SIZE - 1) \div CHUNK_SIZE

\* The outcomes of requests.get and of reading the stream: an exception from get,
\* or a response with a status and a body whose stream ends well (failAfter = -1)
\* or raises after failAfter chunks, before the last one
GetOutcomes ==
  [kind : {"exception"}, status : {0}, body : {<<>>}, failAfter : {-1}] \cup
  [kind : {"response"}, status : {404, 500}, body : {<<>>}, failAfter : {-1}] \cup
  UNION {{[kind |-> "response", status |-> 200, body |-> b, failAfter |-> k] :
            k \in {-1} \cup (0..(NumChunks(b) - 1))} : b \in Bodies}

\* download_file: OUTPUT_DIR / safe_filename, worked out once for each URL
TargetPaths ==
  { [url |-> u, path |-> PathJoin(OUTPUT_DIR, SafeFilename(u))] : u \in Urls }

\* download_file: OUTPUT_DIR / safe_filename
TargetPath(url) == (CHOOSE row \in TargetPaths : row.url = url).path

\* the paths download_file can write to
Paths == {TargetPath(u) : u \in Urls}

\* the titles, URLs, makes and models that the scoring loop can meet
Titles == { r.title : r \in SearchResults }

CandidateUrls ==
  { (IF r.href # <<>> THEN r.href ELSE r.url) : r \in SearchResults } \ {<<>>}

Makes == { Strip(mk) : mk \in MakeInputs } \cup { mk[1] : mk \in MakeArgs \ {None} }

Models == { Strip(md) : md \in ModelInputs } \cup { md[1] : md \in ModelArgs \ {None} }

\* file_score(...) + domain_score(...) of line 114, worked out once for each of
\* them
Scores ==
  { [title |-> t, url |-> u, make |-> mk, model |-> md,
     score |-> LET f == file_score(t, mk, md)
               IN  [num |-> f.num + domain_score(u, mk) * f.den, den |-> f.den]]
      : t \in Titles, u \in CandidateUrls, mk \in Makes, md \in Models }

\* file_score(...) + domain_score(...)
CombinedScore(title, url, mk, md) ==
  (CHOOSE row \in Scores : /\ row.title = title
                           /\ row.url = url
                           /\ row.make = mk
                           /\ row.model = md).score

\* ------------------------------------------------------------ the messages

MSG_NO_RESULTS == <<CROSS, " No results found.">>

MSG_NO_ACCESSIBLE_EXIT == <<WARN, " No accessible manuals found. Exiting.">>

MSG_NO_ACCESSIBLE == <<CROSS, " No accessible manuals found.">>

MSG_INVALID_PDF == <<WARN, " Invalid PDF content">>

MsgDownloadFailed(e) == <<WARN, " Download failed: ", e>>

QUERY_SUFFIX == <<" ", "o", "p", "e", "r", "a", "t", "i", "o", "n", "s", " ", "a", "n", "d", " ", "m", "a", "i", "n", "t", "e", "n", "a", "n", "c", "e", " ", "m", "a", "n", "u", "a", "l">>

\* ---------------------------------------------------------------- the state

VARIABLES
  pc,            \* where find_manual is: top, search, no_results, scoring, blocked,
                 \* confirm, download, offer, after_download, done
  make, model,   \* find_manual's make and model: None or a string
  query,         \* the last query searched for
  results,       \* the search results of the round
  idx,           \* the index of the for loop that runs
  scored,        \* the (score, title, url) list of the round
  best,          \* None or the best match
  saved,         \* None or what download_file returned
  cont,          \* who called offer_open_in_browser: find_manual or download_file
  ret,           \* None or what find_manual returned
  fs,            \* the disk: path -> None (no such file) or the file's bytes
  searches,      \* searches issued so far
  retryYes,      \* retry prompts answered y so far
  probes,        \* of the round: per result, the accessibility probes made
  lastProbe,     \* None or the probe of the last step: the response, what is_accessible_url gave
  downloads,     \* of the round: download_file calls
  lastGet,       \* of the round: None or what download_file met
  confirmAsked,  \* of the round: whether the download prompt was shown
  offered,       \* of the round: the URLs offered to open in the browser
  opened,        \* of the round: the URLs opened in the browser
  printed,       \* of the round: lines printed
  prompt,        \* the last prompt the last step showed, "" when it showed none
  answer,        \* what the user typed at that prompt
  pdfCheck       \* None or the is_valid_pdf call of the last step: what was on the
                 \* disk at the path, what the call returned

vars ==
  << pc, make, model, query, results, idx, scored, best, saved, cont, ret, fs,
     searches, retryYes, probes, lastProbe, downloads, lastGet, confirmAsked,
     offered, opened, printed, prompt, answer, pdfCheck >>

round == <<probes, downloads, lastGet, confirmAsked, offered, opened, printed>>

\* a step that shows no prompt
NoPrompt == prompt' = "" /\ answer' = <<>>

\* a step that probes no URL
NoProbe == lastProbe' = None

\* a step that does not call is_valid_pdf
NoPdfCheck == pdfCheck' = None

\* "not x" for None, "" and a string
Falsy(opt) == opt = None \/ opt[1] = <<>>

\* a or b for strings
Or(a, b) == IF a # <<>> THEN a ELSE b

\* a variant: input(...).strip().lower() == "y"
IsYes_strip(ans) == Lower(Strip(ans)) = <<"y">>

\* input(...).lower() == "y"
IsYes(ans) == Lower(ans) = <<"y">>

\* input(...).strip().lower() == "y"
IsYesStripped(ans) == Lower(Strip(ans)) = <<"y">>

\* (score, title, url) < (score, title, url)
TupleLess(x, y) ==
  \/ FracLess(x.score, y.score)
  \/ FracEq(x.score, y.score) /\ StrLess(x.title, y.title)
  \/ FracEq(x.score, y.score) /\ x.title = y.title /\ StrLess(x.url, y.url)

RECURSIVE Insert(_, _)
Insert(x, s) ==
  IF s = <<>> THEN <<x>>
  ELSE IF TupleLess(s[1], x) THEN <<x>> \o s
  ELSE <<s[1]>> \o Insert(x, Tail(s))

\* a variant: scored.sort() without reverse=True, the lowest score first
RECURSIVE SortDesc_ascending(_)
SortDesc_ascending(s) ==
  IF s = <<>> THEN <<>>
  ELSE LET rest == SortDesc_ascending(Tail(s))
           RECURSIVE Put(_, _)
           Put(x, t) == IF t = <<>> THEN <<x>>
                        ELSE IF TupleLess(x, t[1]) THEN <<x>> \o t
                        ELSE <<t[1]>> \o Put(x, Tail(t))
       IN  Put(s[1], rest)

\* list.sort(reverse=True): descending, equal elements in their order
RECURSIVE SortDesc(_)
SortDesc(s) ==
  IF s = <<>> THEN <<>> ELSE Insert(s[Len(s)], SortDesc(SubSeq(s, 1, Len(s) - 1)))

Init ==
  /\ pc = "top"
  /\ make \in MakeArgs
  /\ model \in ModelArgs
  /\ query = <<>>
  /\ results = <<>>
  /\ idx = 1
  /\ scored = <<>>
  /\ best = None
  /\ saved = None
  /\ cont = ""
  /\ ret = None
  /\ fs = [p \in Paths |-> None]
  /\ searches = 0
  /\ retryYes = 0
  /\ probes = <<>>
  /\ lastProbe = None
  /\ downloads = 0
  /\ lastGet = None
  /\ confirmAsked = FALSE
  /\ offered = {}
  /\ opened = {}
  /\ printed = {}
  /\ prompt = ""
  /\ answer = <<>>
  /\ pdfCheck = None

\* ------------------------------------------------------- the controller

\* a variant: make = None; continue
Retry_make_only ==
  /\ make' = None
  /\ model' = model
  /\ retryYes' = retryYes + 1

\* make = model = None; continue
Retry ==
  /\ make' = None
  /\ model' = None
  /\ retryYes' = retryYes + 1

\* return value
Return(value) ==
  /\ ret' = Some(value)
  /\ pc' = "done"

\* lines 87-94: a turn of the while loop starts: prompt for what is missing, build
\* the query.  The round's bookkeeping starts afresh, and the locals that the turn
\* assigns before it reads them (results, scored, best_*, saved) are forgotten.
EnterMakeModel ==
  /\ pc = "top"
  /\ NoPdfCheck
  /\ \E mk \in MakeInputs, md \in ModelInputs :
       /\ make' = IF Falsy(make) THEN Some(Strip(mk)) ELSE make
       /\ model' = IF Falsy(model) THEN Some(Strip(md)) ELSE model
       /\ prompt' = IF Falsy(model) THEN "model" ELSE IF Falsy(make) THEN "make" ELSE ""
       /\ answer' = IF Falsy(model) THEN md ELSE IF Falsy(make) THEN mk ELSE <<>>
  /\ query' = make'[1] \o <<" ">> \o model'[1] \o QUERY_SUFFIX
  /\ pc' = "search"
  /\ probes' = <<>>
  /\ downloads' = 0
  /\ lastGet' = None
  /\ confirmAsked' = FALSE
  /\ offered' = {}
  /\ opened' = {}
  /\ printed' = {<<"Searching for: ", query'>>}
  /\ NoProbe
  /\ results' = <<>>
  /\ idx' = 1
  /\ scored' = <<>>
  /\ best' = None
  /\ saved' = None
  /\ cont' = ""
  /\ UNCHANGED << ret, fs, searches, retryYes >>

\* lines 96-99, 108: the search
Search ==
  /\ pc = "search"
  /\ NoPdfCheck
  /\ searches < MaxRounds
  /\ \E rs \in ResultLists :
       /\ results' = rs
       /\ probes' = [i \in 1..Len(rs) |-> 0]
       /\ pc' = IF rs = <<>> THEN "no_results" ELSE "scoring"
       /\ scored' = <<>>
  /\ searches' = searches + 1
  /\ idx' = 1
  /\ NoPrompt
  /\ NoProbe
  /\ UNCHANGED << make, model, query, best, saved, cont, ret, fs, retryYes, downloads,
                  lastGet, confirmAsked, offered, opened, printed >>

\* lines 100-106: no results
NoResults ==
  /\ pc = "no_results"
  /\ NoPdfCheck
  /\ printed' = printed \cup {MSG_NO_RESULTS}
  /\ prompt' = "retry_no_results"
  /\ \E ans \in Answers :
       /\ answer' = ans
       /\ IF IsYes(ans)
          THEN Retry /\ pc' = "top" /\ ret' = ret
          ELSE Return(MSG_NO_RESULTS) /\ UNCHANGED << make, model, retryYes >>
  /\ NoProbe
  /\ UNCHANGED << query, results, idx, scored, best, saved, cont, fs, searches, probes,
                  downloads, lastGet, confirmAsked, offered, opened >>

\* lines 109-118: one turn of the scoring loop
ScoreResult ==
  /\ pc = "scoring"
  /\ NoPdfCheck
  /\ idx <= Len(results)
  /\ LET url   == Or(results[idx].href, results[idx].url)
         title == Or(results[idx].title, <<>>)
     IN  IF url = <<>>
         THEN NoProbe /\ UNCHANGED << scored, probes, pc >>
         ELSE \E resp \in HeadResponses :
                LET got == is_accessible_url(resp)
                IN  /\ probes' = [probes EXCEPT ![idx] = @ + 1]
                    /\ lastProbe' = Some([url |-> url, resp |-> resp, got |-> got])
                    /\ pc' = IF got.raised THEN "raised" ELSE pc
                    /\ scored' =
                         IF ~got.raised /\ got.accessible
                         THEN Append(scored,
                                [score |-> CombinedScore(title, url, make[1], model[1]),
                                 title |-> title, url |-> url])
                         ELSE scored
  /\ idx' = idx + 1
  /\ NoPrompt
  /\ UNCHANGED << make, model, query, results, best, saved, cont, ret, fs, searches,
                  retryYes, downloads, lastGet, confirmAsked, offered, opened, printed >>

\* lines 120, 138-144, 161-163: after the scoring loop
Rank ==
  /\ pc = "scoring"
  /\ NoPdfCheck
  /\ idx > Len(results)
  /\ IF scored = <<>>
     THEN /\ pc' = "blocked"
          /\ idx' = 1
          /\ UNCHANGED << scored, best, cont, printed >>
     ELSE /\ scored' = SortDesc(scored)
          /\ best' = Some(scored'[1])
          /\ idx' = idx
          /\ IF close_match(scored'[1].score)
             THEN /\ pc' = "confirm"
                  /\ cont' = cont
                  /\ printed' = printed \cup {<<"Best match: ", scored'[1].url>>}
             ELSE /\ pc' = "offer"
                  /\ cont' = "find_manual"
                  /\ printed' = printed \cup {<<"Best match: ", scored'[1].url>>,
                                              <<"link", scored'[1].url>>}
  /\ NoPrompt
  /\ NoProbe
  /\ UNCHANGED << make, model, query, results, saved, ret, fs, searches, retryYes,
                  probes, downloads, lastGet, confirmAsked, offered, opened >>

\* lines 121-134: one turn of the loop over the results when none was accessible.
\* The continue of line 133 is inside this for loop: it goes to its next turn.
BlockedResult ==
  /\ pc = "blocked"
  /\ NoPdfCheck
  /\ idx <= Len(results)
  /\ LET url   == Or(results[idx].href, results[idx].url)
         title == Or(results[idx].title, <<>>)
     IN  IF url = <<>>
         THEN /\ idx' = idx + 1
              /\ NoPrompt
              /\ NoProbe
              /\ UNCHANGED << pc, make, model, retryYes, ret, probes, printed >>
         ELSE \E resp \in HeadResponses :
                LET got == is_accessible_url(resp)
                IN  /\ probes' = [probes EXCEPT ![idx] = @ + 1]
                    /\ lastProbe' = Some([url |-> url, resp |-> resp, got |-> got])
                    /\ IF got.raised
                       THEN /\ pc' = "raised"
                            /\ NoPrompt
                            /\ UNCHANGED << idx, make, model, retryYes, ret, printed >>
                       ELSE IF got.accessible
                       THEN /\ idx' = idx + 1
                            /\ NoPrompt
                            /\ UNCHANGED << pc, make, model, retryYes, ret, printed >>
                       ELSE /\ printed' = printed \cup {<<"Closest result was blocked: ", url>>}
                            /\ prompt' = "retry_blocked"
                            /\ \E ans \in Answers :
                                 /\ answer' = ans
                                 /\ IF IsYes(ans)
                                    THEN /\ Retry
                                         /\ idx' = idx + 1
                                         /\ UNCHANGED << pc, ret >>
                                    ELSE /\ Return(MSG_NO_ACCESSIBLE_EXIT)
                                         /\ UNCHANGED << idx, make, model, retryYes >>
  /\ UNCHANGED << query, results, scored, best, saved, cont, fs, searches, downloads,
                  lastGet, confirmAsked, offered, opened >>

\* lines 135-136: the loop over the results ran to its end
BlockedEnd ==
  /\ pc = "blocked"
  /\ NoPdfCheck
  /\ idx > Len(results)
  /\ printed' = printed \cup {MSG_NO_ACCESSIBLE}
  /\ Return(MSG_NO_ACCESSIBLE)
  /\ NoPrompt
  /\ NoProbe
  /\ UNCHANGED << make, model, query, results, idx, scored, best, saved, cont, fs,
                  searches, retryYes, probes, downloads, lastGet, confirmAsked,
                  offered, opened >>

\* lines 145-146, 156-158: the download prompt
Confirm ==
  /\ pc = "confirm"
  /\ NoPdfCheck
  /\ confirmAsked' = TRUE
  /\ prompt' = "confirm"
  /\ \E ans \in Answers :
       /\ answer' = ans
       /\ IF IsYes(ans)
          THEN pc' = "download" /\ UNCHANGED << cont, printed >>
          ELSE /\ pc' = "offer"
               /\ cont' = "find_manual"
               /\ printed' = printed \cup {<<"link", best[1].url>>}
  /\ NoProbe
  /\ UNCHANGED << make, model, query, results, idx, scored, best, saved, ret, fs,
                  searches, retryYes, probes, downloads, lastGet, offered, opened >>

\* lines 56-78: download_file(best_url), up to its return or to its call of
\* offer_open_in_browser
download_file ==
  /\ pc = "download"
  /\ downloads' = downloads + 1
  /\ \E g \in GetOutcomes :
       LET url     == best[1].url
           path    == TargetPath(url)
           partial == SubSeq(g.body, 1, IF g.failAfter * CHUNK_SIZE < Len(g.body)
                                         THEN g.failAfter * CHUNK_SIZE ELSE Len(g.body))
           written == [fs EXCEPT ![path] = Some(g.body)]
           Fail(e, files) ==
             /\ saved' = Some(MsgDownloadFailed(e))
             /\ NoPdfCheck
             /\ fs' = files
             /\ pc' = "after_download"
             /\ UNCHANGED << cont, printed >>
       IN  /\ lastGet' = Some([url |-> url, path |-> path, outcome |-> g])
           /\ IF g.kind = "exception" THEN Fail("ConnectionError", fs)
              ELSE IF g.status >= 400 THEN Fail("HTTPError", fs)
              ELSE IF Dirname(path) # OUTPUT_DIR THEN Fail("FileNotFoundError", fs)
              ELSE IF g.failAfter # -1
                   THEN Fail("ChunkedEncodingError", [fs EXCEPT ![path] = Some(partial)])
              ELSE IF ~is_valid_pdf(written, path)
                   THEN /\ pdfCheck' = Some([data |-> Some(g.body), valid |-> FALSE])
                        /\ printed' = printed \cup {<<CROSS, " File downloaded but is NOT a valid PDF (likely a web page).">>}
                        /\ fs' = [written EXCEPT ![path] = None]
                        /\ cont' = "download_file"
                        /\ pc' = "offer"
                        /\ saved' = saved
                   ELSE /\ pdfCheck' = Some([data |-> Some(g.body), valid |-> TRUE])
                        /\ fs' = written
                        /\ saved' = Some(path)
                        /\ pc' = "after_download"
                        /\ UNCHANGED << cont, printed >>
  /\ NoPrompt
  /\ NoProbe
  /\ UNCHANGED << make, model, query, results, idx, scored, best, ret, searches,
                  retryYes, probes, confirmAsked, offered, opened >>

\* lines 80-84, and the line of the caller that follows the call: line 75 in
\* download_file, lines 160 and 165 in find_manual
offer_open_in_browser ==
  /\ pc = "offer"
  /\ NoPdfCheck
  /\ prompt' = "browser"
  /\ offered' = offered \cup {best[1].url}
  /\ \E ans \in Answers :
       /\ answer' = ans
       /\ opened' = IF IsYesStripped(ans) THEN opened \cup {best[1].url} ELSE opened
       /\ printed' = IF IsYesStripped(ans) THEN printed \cup {<<"Browser opened.">>} ELSE printed
  /\ IF cont = "download_file"
     THEN /\ saved' = Some(MSG_INVALID_PDF)
          /\ pc' = "after_download"
          /\ ret' = ret
     ELSE /\ Return(best[1].url)
          /\ saved' = saved
  /\ NoProbe
  /\ UNCHANGED << make, model, query, results, idx, scored, best, cont, fs, searches,
                  retryYes, probes, downloads, lastGet, confirmAsked >>

\* lines 148-155: after download_file returned
AfterDownload ==
  /\ pc = "after_download"
  /\ NoPdfCheck
  /\ IF StartsWith(saved[1], <<WARN>>)
     THEN /\ prompt' = "retry_download"
          /\ printed' = printed
          /\ \E ans \in Answers :
               /\ answer' = ans
               /\ IF IsYes(ans)
                  THEN Retry /\ pc' = "top" /\ ret' = ret
                  ELSE Return(saved[1]) /\ UNCHANGED << make, model, retryYes >>
     ELSE /\ printed' = printed \cup {<<"File saved to: ", saved[1]>>}
          /\ Return(saved[1])
          /\ NoPrompt
          /\ UNCHANGED << make, model, retryYes >>
  /\ NoProbe
  /\ UNCHANGED << query, results, idx, scored, best, saved, cont, fs, searches, probes,
                  downloads, lastGet, confirmAsked, offered, opened >>

\* lines 86-165: find_manual
Next ==
  \/ EnterMakeModel
  \/ Search
  \/ NoResults
  \/ ScoreResult
  \/ Rank
  \/ BlockedResult
  \/ BlockedEnd
  \/ Confirm
  \/ download_file
  \/ offer_open_in_browser
  \/ AfterDownload

Spec == Init /\ [][Next]_vars

\* find_manual runs: the interpreter takes the next step, and every network call
\* and every prompt returns
FairSpec == Spec /\ WF_vars(Next)

\* ------------------------------------------------- is_valid_pdf on any disk

\* What open(path, "rb") can meet at a path: no file or a file that cannot be
\* read (None: open raises), or a file with these bytes
FileStates ==
  {None} \cup { Some(b) : b \in { <<>>,
                                  <<"%", "P", "D">>,
                                  <<"<", "h", "t", "m">>,
                                  <<"%", "P", "D", "F">>,
                                  <<"%", "P", "D", "F", "-", "1">>,
                                  <<"x", "%", "P", "D", "F">> } }

\* any disk, before find_manual has done anything
PdfInit ==
  /\ pc = "is_valid_pdf"
  /\ fs \in [Paths -> FileStates]
  /\ make = None
  /\ model = None
  /\ query = <<>>
  /\ results = <<>>
  /\ idx = 1
  /\ scored = <<>>
  /\ best = None
  /\ saved = None
  /\ cont = ""
  /\ ret = None
  /\ searches = 0
  /\ retryYes = 0
  /\ probes = <<>>
  /\ lastProbe = None
  /\ downloads = 0
  /\ lastGet = None
  /\ confirmAsked = FALSE
  /\ offered = {}
  /\ opened = {}
  /\ printed = {}
  /\ prompt = ""
  /\ answer = <<>>
  /\ pdfCheck = None

\* lines 49-54: is_valid_pdf(path), called on a path of the disk
ValidatePdf ==
  /\ pc = "is_valid_pdf"
  /\ \E path \in Paths :
       pdfCheck' = Some([data |-> fs[path], valid |-> is_valid_pdf(fs, path)])
  /\ pc' = "validated"
  /\ UNCHANGED << make, model, query, results, idx, scored, best, saved, cont, ret,
                  fs, searches, retryYes, probes, lastProbe, downloads, lastGet,
                  confirmAsked, offered, opened, printed, prompt, answer >>

SpecPdf == PdfInit /\ [][ValidatePdf]_vars

\* ----------------------------------------------------------------- claims

\* the user's answer is y (in either case)
AnsweredY(ans) == ans \in {<<"y">>, <<"Y">>}

\* the bytes begin with %PDF
HasPdfSignature(bytes) == Len(bytes) >= 4 /\ SubSeq(bytes, 1, 4) = <<"%", "P", "D", "F">>

\* a score above one half
AboveHalf(score) == 2 * score.num > score.den

\* a string that begins with the warning marker
IsWarning(v) == Len(v) > 0 /\ v[1] = "WARN"

\* a message for the user: it begins with one of the glyphs
IsMessage(v) == Len(v) > 0 /\ v[1] \in {"WARN", "CROSS", "LOCK"}

\* the path of a file in the file system
IsPath(v) == Len(v) > 0 /\ v[1] = "/"

\* the probes made in the round
RECURSIVE SumSeq(_)
SumSeq(s) == IF s = <<>> THEN 0 ELSE s[1] + SumSeq(Tail(s))

ProbeCount == SumSeq(probes)

\* the round's download was served in full, without an error
ServedInFull ==
  /\ lastGet # None
  /\ lastGet[1].outcome.kind = "response"
  /\ lastGet[1].outcome.status = 200
  /\ lastGet[1].outcome.failAfter = -1

\* C1: when none of a round's results is accessible, answering y to the retry
\* prompt resets make and model and takes find_manual back to the top of its
\* loop, for a new round, without returning.
C1_RetryStartsNewRound ==
  [][(prompt' = "retry_blocked" /\ AnsweredY(answer'))
       => (pc' = "top" /\ make' = None /\ model' = None)]_vars

\* C2: once the downloaded file has failed the signature check, the file is not on
\* the disk, and if find_manual returns (no retry) it returns a string that begins
\* with the warning marker and is no path.
C2_InvalidPdfDeletedAndReported ==
  (ServedInFull /\ ~HasPdfSignature(lastGet[1].outcome.body))
    => /\ fs[lastGet[1].path] = None
       /\ pc \in {"offer", "after_download", "top", "done"}
       /\ pc = "done" => (IsWarning(ret[1]) /\ ~IsPath(ret[1]) /\ ret[1] \notin Paths)

C2_Witness ==
  /\ pc = "done"
  /\ ServedInFull
  /\ ~HasPdfSignature(lastGet[1].outcome.body)
  /\ AboveHalf(best[1].score)
  /\ confirmAsked
  /\ ret = Some(<<"WARN", " Invalid PDF content">>)

\* C3: when the best match scores above 0.5, the user confirms, and the URL serves
\* content that begins with %PDF without a network error, find_manual returns a
\* path, and the file at that path exists and begins with %PDF; and find_manual
\* never returns a path to a file that does not begin with %PDF.
C3_PdfDownloadReturnsPath ==
  /\ (ServedInFull /\ HasPdfSignature(lastGet[1].outcome.body))
       => /\ pc \in {"after_download", "done"}
          /\ saved = Some(lastGet[1].path)
          /\ pc = "done" => ret = saved
  /\ (pc = "done" /\ IsPath(ret[1]))
       => (fs[ret[1]] # None /\ HasPdfSignature(fs[ret[1]][1]))

\* C4: when the search returns no result and the user does not answer y to the
\* retry prompt, find_manual returns the no-results message, and the round has seen
\* no probe, no download and no browser offer.
C4_NoResultsReturns ==
  (prompt = "retry_no_results" /\ ~AnsweredY(answer))
    => /\ pc = "done"
       /\ ret = Some(<<"CROSS", " No results found.">>)
       /\ ProbeCount = 0
       /\ downloads = 0
       /\ lastGet = None
       /\ offered = {}

C4_Witness ==
  /\ pc = "done"
  /\ results = <<>>
  /\ prompt = "retry_no_results"
  /\ ~AnsweredY(answer)
  /\ searches = 2

\* C5: when a download of the round has failed (download_file returned a warning),
\* the browser prompt for that link has been offered by the time find_manual
\* returns or starts another round.
C5_FailedDownloadOffersBrowser ==
  (pc \in {"done", "top"} /\ lastGet # None /\ saved # None /\ IsWarning(saved[1]))
    => lastGet[1].url \in offered

\* C6: when the best match scores 0.5 or less, the round shows no download prompt
\* and calls download_file never, and find_manual has offered the browser prompt
\* for the best URL when it returns.
C6_WeakMatchNeverDownloads ==
  (best # None /\ ~AboveHalf(best[1].score))
    => /\ ~confirmAsked
       /\ downloads = 0
       /\ lastGet = None
       /\ pc \in {"offer", "done"}
       /\ pc = "done" => (best[1].url \in offered /\ prompt = "browser")

C6_Witness ==
  /\ pc = "done"
  /\ best # None
  /\ 2 * best[1].score.num = best[1].score.den
  /\ best[1].url \in offered
  /\ ~confirmAsked
  /\ downloads = 0

\* C7: when the best match scores above 0.5, the user is asked to confirm the
\* download; download_file is called only after the answer y; after any other
\* answer no download is attempted, the link is printed and the browser prompt is
\* offered before find_manual returns.
C7_DownloadOnlyAfterConfirm ==
  /\ (best # None /\ AboveHalf(best[1].score)) => (pc = "confirm" \/ confirmAsked)
  /\ pc = "download" => (prompt = "confirm" /\ AnsweredY(answer))
  /\ downloads > 0 => confirmAsked
  /\ (prompt = "confirm" /\ ~AnsweredY(answer))
       => (pc = "offer" /\ downloads = 0 /\ <<"link", best[1].url>> \in printed)
  /\ (pc = "done" /\ confirmAsked /\ downloads = 0)
       => /\ best[1].url \in offered
          /\ <<"link", best[1].url>> \in printed
          /\ lastGet = None

C7_Witness ==
  /\ pc = "done"
  /\ best # None
  /\ AboveHalf(best[1].score)
  /\ best[1].score.num < best[1].score.den
  /\ confirmAsked
  /\ downloads = 0
  /\ best[1].url \in offered

\* C8 as stated: whatever find_manual returns is the path of a downloaded and
\* validated file or a message for the user, and it is a path exactly when a
\* download succeeded.
C8_ReturnsPathOrMessage ==
  pc = "done"
    => /\ IsPath(ret[1]) \/ IsMessage(ret[1])
       /\ IsPath(ret[1]) <=> (saved # None /\ ~IsWarning(saved[1]))

\* C8 as amended: whatever find_manual returns is the path of a downloaded and
\* validated file, a message for the user, or the URL of the best match (after a
\* weak match or a declined download); it is a path exactly when a download
\* succeeded.
C8_ReturnsPathMessageOrUrl ==
  pc = "done"
    => /\ \/ /\ IsPath(ret[1])
             /\ fs[ret[1]] # None
             /\ HasPdfSignature(fs[ret[1]][1])
          \/ IsMessage(ret[1])
          \/ /\ best # None
             /\ ret[1] = best[1].url
             /\ downloads = 0
             /\ ~AboveHalf(best[1].score) \/ (confirmAsked /\ prompt = "browser")
       /\ IsPath(ret[1]) <=> (saved # None /\ ~IsWarning(saved[1]))
       /\ IsPath(ret[1]) => (ServedInFull /\ ret[1] = lastGet[1].path)

C8_Witness ==
  /\ pc = "done"
  /\ best # None
  /\ ret[1] = best[1].url
  /\ confirmAsked

\* C9: is_accessible_url returns (true, None) exactly when the HEAD status is 200;
\* for 403, 404 and any other status it returns false with a reason (the 404 reason
\* holds "404", the generic reason holds the status code); and an exception of the
\* request never leaves it: it is returned as (false, reason).
C9_AccessibleIff200 ==
  lastProbe # None
    => LET resp == lastProbe[1].resp
           got  == lastProbe[1].got
           Holds(reason, token) == \E i \in 1..Len(reason[1]) : reason[1][i] = token
       IN  /\ ~got.raised
           /\ pc # "raised"
           /\ got.accessible <=> (resp.kind = "status" /\ resp.code = 200)
           /\ got.accessible => got.reason = None
           /\ ~got.accessible => (got.reason # None /\ Len(got.reason[1]) > 0)
           /\ (resp.kind = "status" /\ resp.code = 404) => Holds(got.reason, "404")
           /\ (resp.kind = "status" /\ resp.code \notin {200, 403, 404})
                => Holds(got.reason, ToString(resp.code))

C9_Witness ==
  /\ lastProbe # None
  /\ lastProbe[1].resp.kind = "exception"
  /\ ~lastProbe[1].got.accessible
  /\ pc = "scoring"

\* domain_score as C10 states it: 3 for a host that ends with a trusted suffix,
\* plus 2 for a host that holds the make
SuffixDomainScore(url, mk) ==
  (IF \E k \in 1..Len(TRUSTED_DOMAINS) : EndsWith(Netloc(url), TRUSTED_DOMAINS[k])
   THEN 3 ELSE 0)
  + (IF Contains(Lower(Netloc(url)), Lower(mk)) THEN 2 ELSE 0)

\* C10: the score of every candidate is its file score plus a domain score of 3
\* if its host ends with a trusted suffix
\* (else 0) plus 2 if the lower-cased make is in the lower-cased host (else 0).
C10_DomainScoreSuffixMatch ==
  (pc = "scoring" /\ make # None)
    => \A i \in 1..Len(scored) :
         LET f == file_score(scored[i].title, make[1], model[1])
         IN  scored[i].score =
               [num |-> f.num + SuffixDomainScore(scored[i].url, make[1]) * f.den,
                den |-> f.den]

\* C11: is_valid_pdf returns true if and only if the file can be read and its
\* first 4 bytes are exactly %PDF; it returns false for an empty file, for a file
\* shorter than 4 bytes, for content that starts with <htm, and for a missing or
\* unreadable file, and it returns a boolean in each case (it never raises).
C11_ValidPdfIffSignature ==
  pdfCheck # None
    => LET c == pdfCheck[1]
       IN  /\ c.valid \in BOOLEAN
           /\ c.valid <=> (c.data # None /\ HasPdfSignature(c.data[1]))
           /\ c.data = None => ~c.valid
           /\ (c.data # None /\ Len(c.data[1]) < 4) => ~c.valid
           /\ (c.data # None /\ Len(c.data[1]) >= 4
                 /\ SubSeq(c.data[1], 1, 4) = <<"<", "h", "t", "m">>) => ~c.valid

\* is_valid_pdf was called on an empty file and returned false
C11_Witness ==
  /\ pdfCheck # None
  /\ pdfCheck[1].data = Some(<<>>)
  /\ ~pdfCheck[1].valid

\* C12: within one search round each search result is probed by is_accessible_url
\* at most once, so the round makes no more probes than a search can return
\* results.
C12_ProbedAtMostOnce ==
  /\ \A i \in 1..Len(probes) : probes[i] <= 1
  /\ ProbeCount <= Len(results)
  /\ ProbeCount <= MaxResults

\* C13: find_manual never retries on its own.  A second or later search is issued
\* only after the user answered y to a retry prompt: the loop is back at its top
\* only by such an answer, and the searches issued are at most one more than the
\* y answers to retry prompts.  download_file is called at most once in a round.
C13_RetriesAreUserDriven ==
  /\ searches <= 1 + retryYes
  /\ downloads <= 1
  /\ (pc = "top" /\ searches > 0)
       => (prompt \in {"retry_no_results", "retry_download"} /\ AnsweredY(answer))

\* a second search was issued after one y, and its round called download_file
C13_Witness ==
  /\ searches = 2
  /\ retryYes = 1
  /\ downloads = 1
  /\ lastGet # None

\* the strings a prompt for the make can give, stripped
EnteredMakes == { Strip(mk) : mk \in MakeInputs }

\* C14: a search round that starts after a retry from the no-results branch or
\* from the failed-download branch starts with make and model both reset, so the
\* user is prompted for both again, and the query of the round is built from the
\* values entered at these prompts, whatever find_manual was called with.
C14_RetryRoundAsksAgain ==
  /\ (pc = "top" /\ searches > 0)
       => /\ prompt \in {"retry_no_results", "retry_download"}
          /\ make = None
          /\ model = None
  /\ (pc = "search" /\ searches > 0)
       => /\ prompt = "model"
          /\ model = Some(Strip(answer))
          /\ make # None
          /\ make[1] \in EnteredMakes
          /\ query = make[1] \o <<" ">> \o model[1] \o QUERY_SUFFIX
          /\ printed = {<<"Searching for: ", query>>}

\* after a retry, the second round is about to search for the make x that the
\* user has typed
C14_Witness ==
  /\ pc = "search"
  /\ searches = 1
  /\ retryYes = 1
  /\ make = Some(<<"x">>)
  /\ prompt = "model"

\* the URL and the title find_manual reads from a search result
ResultUrl(r) == IF r.href # <<>> THEN r.href ELSE r.url

\* C15: the best match is a candidate of the round, that is a search result with a
\* URL whose probe succeeded, and its combined score file_score + domain_score is
\* maximal among the candidates: no candidate scores strictly higher.
C15_BestHasMaximalScore ==
  /\ (pc = "scoring" /\ lastProbe # None /\ lastProbe[1].resp.kind = "status"
        /\ lastProbe[1].resp.code = 200)
       => /\ scored # <<>>
          /\ LET r == results[idx - 1]
                 e == scored[Len(scored)]
             IN  /\ e.url = ResultUrl(r)
                 /\ e.title = r.title
                 /\ e.score = CombinedScore(r.title, ResultUrl(r), make[1], model[1])
  /\ best # None
       => /\ \E i \in 1..Len(scored) : scored[i] = best[1]
          /\ \A i \in 1..Len(scored) : ~FracLess(best[1].score, scored[i].score)
          /\ \E j \in 1..Len(results) :
               /\ probes[j] = 1
               /\ best[1].url = ResultUrl(results[j])
               /\ best[1].title = results[j].title
               /\ make # None
                    => best[1].score = CombinedScore(results[j].title, ResultUrl(results[j]),
                                                     make[1], model[1])

\* two candidates with different scores, and the best match is the one the search
\* returned second
C15_Witness ==
  /\ best # None
  /\ Len(scored) = 2
  /\ Len(results) = 2
  /\ FracLess(scored[2].score, best[1].score)
  /\ best[1].url = ResultUrl(results[2])
  /\ best[1].url # ResultUrl(results[1])

\* the URLs of a (score, title, url) list
UrlsOf(s) == { s[i].url : i \in 1..Len(s) }

\* the URLs of the round that were passed to download_file, offered or opened in
\* the browser, or returned by find_manual
UsedUrls ==
  (IF lastGet # None THEN {lastGet[1].url} ELSE {})
    \cup offered \cup opened
    \cup (IF pc = "done" /\ ~IsMessage(ret[1]) /\ ~IsPath(ret[1]) THEN {ret[1]} ELSE {})

\* the probe of the last step returned status 200
LastProbeGot200 ==
  /\ lastProbe # None
  /\ lastProbe[1].resp.kind = "status"
  /\ lastProbe[1].resp.code = 200

\* C16: every URL that find_manual passes to download_file, offers to open in the
\* browser, opens, or returns is the URL of a search result of the current round
\* whose accessibility probe returned HTTP 200: a URL becomes a candidate only in a
\* step whose probe of that URL answered 200, and only candidates are used.
C16_OnlyAccessibleUrlsUsed ==
  [][ /\ UrlsOf(scored') \subseteq
           UrlsOf(scored) \cup (IF LastProbeGot200' THEN {lastProbe'[1].url} ELSE {})
      /\ UrlsOf(scored') \subseteq
           { ResultUrl(results'[j]) : j \in { k \in 1..Len(results') : probes'[k] >= 1 } }
      /\ UsedUrls' \subseteq UrlsOf(scored')
    ]_vars

\* of two results the first was probed and found inaccessible; the second was
\* downloaded, failed the validation, and was opened in the browser
C16_Witness ==
  /\ Len(results) = 2
  /\ probes = <<1, 1>>
  /\ ResultUrl(results[1]) \notin UrlsOf(scored)
  /\ lastGet # None
  /\ lastGet[1].url = ResultUrl(results[2])
  /\ lastGet[1].url \in opened

RoundMeasure ==
  LET K    == MaxResults + 2
      left == Len(results) + 1 - idx
  IN  CASE pc = "top"            -> 9 * K
        [] pc = "search"         -> 8 * K
        [] pc = "scoring"        -> 7 * K + left
        [] pc = "blocked"        -> 6 * K + left
        [] pc = "confirm"        -> 5 * K
        [] pc = "download"       -> 4 * K
        [] pc = "offer"          -> 3 * K
        [] pc = "after_download" -> 2 * K
        [] pc = "no_results"     -> K
        [] OTHER                 -> 0

\* C18: find_manual terminates when the user stops answering y to retry prompts.
\* A new round starts only by a y answer to a retry prompt; every other step brings
\* the round nearer to its end, and a loop over the results turns at most once per
\* result; a call in which no retry prompt was answered y returns after exactly one
\* search; and every run returns unless the user has answered y as many times as
\* the rounds the model follows.
C18_Terminates ==
  /\ [][pc' = "top" => (prompt' \in {"retry_no_results", "retry_download"}
                          /\ AnsweredY(answer'))]_vars
  /\ [][pc' # "top" => (RoundMeasure' < RoundMeasure /\ RoundMeasure' >= 0)]_vars
  /\ [][/\ Len(results') <= MaxResults
        /\ idx' \in 1..(Len(results') + 1)
        /\ pc' # "raised"
        /\ (pc' = "done" /\ retryYes' = 0) => searches' = 1]_vars
  /\ <>(pc = "done" \/ retryYes >= MaxRounds)

\* find_manual has returned after two rounds, the first ended by a y
C18_Witness ==
  /\ pc = "done"
  /\ searches = 2
  /\ retryYes = 1
  /\ ret # None

=============================================================================
